---- MODULE Spec2Model ----
(***************************************************************************)
(* Model of scripts/plot_ssim_rebuffer.py: one run of main(), which        *)
(* validates the window size, queries the two telemetry streams, reduces   *)
(* them with collect_ssim and collect_rebuffer, and joins the two          *)
(* aggregates in plot_ssim_rebuffer.                                       *)
(*                                                                         *)
(* Python dicts iterate in insertion order, so every dict is a function    *)
(* together with the sequence of its keys in insertion order.  Timestamps  *)
(* are whole seconds and cumulative stall values are whole units, so       *)
(* try_parsing_time and float() are not modelled.  A loop over a query     *)
(* result or a dict takes one step per iteration.                          *)
(***************************************************************************)
EXTENDS Integers, Sequences, FiniteSets, TLC

\* ------------------------------------------------------------------ bounds
MaxPoints == 2      \* most video_acked points in one query result
MaxEvents == 2      \* most client_buffer points in an arbitrary query result

\* ------------------------------------------------------------------ values
None == 0 - 1       \* Python's None; outside every numeric range used here
NoKey == <<>>       \* "no configuration" in an exit message

Days       == {0 - 1, 0, 1}
SsimValues == {None, 1, 3}
Times      == {0, 1, 3}
CumRebufs  == {0, 1}
EventNames == {"startup", "play"}

\* Sessions (user, init_id, channel, expt_id).  Experiments 1 and 4 run the
\* same configuration, so the first two sessions fall under one abr_cc key.
SessionKeys == <<(<<"u", 1, "c", 1>>), (<<"u", 2, "c", 4>>),
                 (<<"u", 1, "c", 2>>), (<<"u", 1, "c", 3>>)>>

VideoAckedPoints == [expt_id : {1, 2}, ssim_index : SsimValues]

Point(session, time, event, cum_rebuf) ==
    [user |-> session[1], init_id |-> session[2], channel |-> session[3],
     expt_id |-> session[4], time |-> time, event |-> event,
     cum_rebuf |-> cum_rebuf]

ClientBufferPoints ==
    {Point(SessionKeys[i], t, e, c) :
        i \in 1..Len(SessionKeys), t \in Times, e \in EventNames,
        c \in CumRebufs}

\* All sequences over S of length at most n.
RECURSIVE SeqsUpTo(_, _)
SeqsUpTo(S, n) ==
    IF n = 0 THEN {<<>>}
    ELSE LET shorter == SeqsUpTo(S, n - 1)
         IN  shorter \cup {Append(q, e) : q \in shorter, e \in S}

\* The points one session can leave in the store: none, a start followed by
\* a later point (1 or 2 seconds on), or a later point without its start.
Scripts(session) ==
    {<<>>,
     <<Point(session, 0, "startup", 0), Point(session, 1, "play", 1)>>,
     <<Point(session, 1, "startup", 0), Point(session, 3, "play", 1)>>,
     <<Point(session, 3, "play", 1)>>}

RECURSIVE ScriptStreams(_)
ScriptStreams(i) ==
    IF i > Len(SessionKeys) THEN {<<>>}
    ELSE {h \o t : h \in Scripts(SessionKeys[i]), t \in ScriptStreams(i + 1)}

\* The query results explored, as pairs (video_acked, client_buffer):
\* any video_acked stream with client_buffer made of whole session scripts,
\* and any short client_buffer stream with one usable video_acked point of
\* experiment 1.
VideoAckedStreams == SeqsUpTo(VideoAckedPoints, MaxPoints)
FewVideoAcked == {<<[expt_id |-> 1, ssim_index |-> 1]>>}
ClientBufferStreams(video_acked) ==
    ScriptStreams(1) \cup
    (IF video_acked \in FewVideoAcked
       THEN SeqsUpTo(ClientBufferPoints, MaxEvents) ELSE {})

VARIABLES
    pc,                 \* position in main()
    days,               \* args.days
    yaml_settings,      \* TRUE once the settings file was opened and loaded
    influx_client,      \* TRUE once connect_to_influxdb returned
    video_acked_results,    \* result of the video_acked query
    client_buffer_results,  \* result of the client_buffer query
    postgres_cursor,    \* "none", "open" or "closed"
    expt_id_cache,      \* the global cache: expt_id -> config
    ssim_x,             \* collect_ssim: x, abr_cc -> list of ssim indices
    ssim_x_keys,        \*   keys of x in insertion order
    n_acked,            \*   video_acked points consumed so far
    ssim,               \* collect_ssim's result, abr_cc -> average
    x,                  \* collect_rebuffer: x, flattened: session -> stats
    x_keys,             \*   abr_cc keys of x in insertion order
    x_sessions,         \*   sessions in insertion order
    n_buffer,           \*   client_buffer points consumed so far
    red_i,              \*   number of abr_cc keys reduced so far
    abr_cc_play,        \*   local abr_cc_play of the latest iteration
    rebuf_rate,         \*   local rebuf_rate of the latest iteration
    rebuffer,           \* collect_rebuffer's results
    total_play,
    plot_i,             \* plot_ssim_rebuffer: ssim keys handled so far
    scatter,            \*   points placed on the axes
    output_written,     \* TRUE once fig.savefig wrote the output file
    exit_msg            \* argument of sys.exit, or NoExit

vars == <<pc, days, yaml_settings, influx_client, video_acked_results,
          client_buffer_results, postgres_cursor,
          expt_id_cache, ssim_x, ssim_x_keys, n_acked, ssim, x, x_keys,
          x_sessions, n_buffer, red_i, abr_cc_play, rebuf_rate,
          rebuffer, total_play, plot_i, scatter, output_written, exit_msg>>

NotQueried == <<"not queried">>
NoExit == [kind |-> "none", key |-> NoKey]
EmptyDict == [k \in {} |-> 0]

\* ----------------------------------------------------------------- helpers
RECURSIVE SeqSum(_)
SeqSum(s) == IF s = <<>> THEN 0 ELSE Head(s) + SeqSum(Tail(s))

SetMax(S) == CHOOSE m \in S : \A n \in S : n <= m

InSeq(e, s) == \E i \in 1..Len(s) : s[i] = e

\* helpers.retrieve_expt_config: the configuration of an experiment id, from
\* the cache or, on a miss, from the relational store.
ExptConfigRow(expt_id) ==
    CASE expt_id = 1 -> [abr |-> "bba", cc |-> "cubic"]
      [] expt_id = 2 -> [abr |-> "bola", cc |-> "bbr"]
      [] expt_id = 3 -> [abr |-> "mpc", cc |-> "bbr"]
      [] expt_id = 4 -> [abr |-> "bba", cc |-> "cubic"]

retrieve_expt_config(expt_id, cache) ==
    IF expt_id \in DOMAIN cache THEN cache[expt_id] ELSE ExptConfigRow(expt_id)

CacheAfter(expt_id, cache) ==
    IF expt_id \in DOMAIN cache THEN cache
    ELSE (expt_id :> ExptConfigRow(expt_id)) @@ cache

\* helpers.get_ssim_index: the point's quality index, None if it has none.
get_ssim_index(pt) == pt.ssim_index

\* np.mean of a list, as an exact fraction; den = 0 is the NaN of an empty list.
Mean(l) == [num |-> SeqSum(l), den |-> Len(l)]

\* helpers.ssim_index_to_db, applied symbolically to the mean.
ssim_index_to_db(avg) == [db_of |-> avg]

Init ==
    /\ pc = "check_days"
    /\ days \in Days
    /\ yaml_settings = FALSE
    /\ influx_client = FALSE
    /\ video_acked_results = NotQueried
    /\ client_buffer_results = NotQueried
    /\ postgres_cursor = "none"
    /\ expt_id_cache = EmptyDict
    /\ ssim_x = EmptyDict
    /\ ssim_x_keys = <<>>
    /\ n_acked = 0
    /\ ssim = EmptyDict
    /\ x = EmptyDict
    /\ x_keys = <<>>
    /\ x_sessions = <<>>
    /\ n_buffer = 0
    /\ red_i = 0
    /\ abr_cc_play = 0
    /\ rebuf_rate = <<>>
    /\ rebuffer = EmptyDict
    /\ total_play = EmptyDict
    /\ plot_i = 0
    /\ scatter = <<>>
    /\ output_written = FALSE
    /\ exit_msg = NoExit

\* ------------------------------------------------------------------ main()
ssimVars == <<ssim_x, ssim_x_keys, n_acked, ssim>>
rebufVars == <<x, x_keys, x_sessions, n_buffer, red_i, abr_cc_play,
               rebuf_rate, rebuffer, total_play>>
plotVars == <<plot_i, scatter, output_written>>
ioVars == <<yaml_settings, influx_client, video_acked_results,
           client_buffer_results, postgres_cursor>>

\* "days < 1"; the variant tests "days < 0".
InvalidDaysNegative(d) == d < 0
InvalidDays(d) == d < 1

\* if days < 1: sys.exit(...)
CheckDays ==
    /\ pc = "check_days"
    /\ IF InvalidDays(days)
         THEN /\ pc' = "exit"
              /\ exit_msg' = [kind |-> "days", key |-> NoKey]
         ELSE /\ pc' = "open_settings"
              /\ UNCHANGED exit_msg
    /\ UNCHANGED <<days, ioVars, expt_id_cache, ssimVars, rebufVars, plotVars>>

\* with open(args.yaml_settings) as fh: yaml_settings = yaml.safe_load(fh)
OpenSettings ==
    /\ pc = "open_settings"
    /\ yaml_settings' = TRUE
    /\ pc' = "connect_influx"
    /\ UNCHANGED <<days, influx_client, video_acked_results,
                   client_buffer_results, postgres_cursor, expt_id_cache,
                   ssimVars, rebufVars, plotVars, exit_msg>>

\* influx_client = connect_to_influxdb(yaml_settings)
ConnectInflux ==
    /\ pc = "connect_influx"
    /\ influx_client' = TRUE
    /\ pc' = "query_video_acked"
    /\ UNCHANGED <<days, yaml_settings, video_acked_results,
                   client_buffer_results, postgres_cursor, expt_id_cache,
                   ssimVars, rebufVars, plotVars, exit_msg>>

\* video_acked_results = influx_client.query('SELECT * FROM video_acked ...')
QueryVideoAcked ==
    /\ pc = "query_video_acked"
    /\ video_acked_results' \in VideoAckedStreams
    /\ pc' = "query_client_buffer"
    /\ UNCHANGED <<days, yaml_settings, influx_client, client_buffer_results,
                   postgres_cursor, expt_id_cache, ssimVars, rebufVars,
                   plotVars, exit_msg>>

\* client_buffer_results = influx_client.query('SELECT * FROM client_buffer ...')
QueryClientBuffer ==
    /\ pc = "query_client_buffer"
    /\ client_buffer_results' \in ClientBufferStreams(video_acked_results)
    /\ pc' = "connect_postgres"
    /\ UNCHANGED <<days, yaml_settings, influx_client, video_acked_results,
                   postgres_cursor, expt_id_cache, ssimVars, rebufVars,
                   plotVars, exit_msg>>

\* postgres_client = connect_to_postgres(...); postgres_cursor = ...cursor()
ConnectPostgres ==
    /\ pc = "connect_postgres"
    /\ postgres_cursor' = "open"
    /\ pc' = "collect_ssim"
    /\ UNCHANGED <<days, yaml_settings, influx_client, video_acked_results,
                   client_buffer_results, expt_id_cache,
                   ssimVars, rebufVars, plotVars, exit_msg>>

\* ----------------------------------------------------------- collect_ssim
\* One iteration of "for pt in video_acked_results['video_acked']".
SsimPoint(pt) ==
    LET expt_config == retrieve_expt_config(pt.expt_id, expt_id_cache)
        abr_cc == <<expt_config.abr, expt_config.cc>>
        x0 == IF abr_cc \in DOMAIN ssim_x THEN ssim_x
              ELSE (abr_cc :> <<>>) @@ ssim_x
        ssim_index == get_ssim_index(pt)
    IN  /\ expt_id_cache' = CacheAfter(pt.expt_id, expt_id_cache)
        /\ ssim_x_keys' = IF abr_cc \in DOMAIN ssim_x THEN ssim_x_keys
                          ELSE Append(ssim_x_keys, abr_cc)
        /\ ssim_x' = IF ssim_index # None
                       THEN [x0 EXCEPT ![abr_cc] = Append(@, ssim_index)]
                       ELSE x0

CollectSsimPoint ==
    /\ pc = "collect_ssim"
    /\ n_acked < Len(video_acked_results)
    /\ SsimPoint(video_acked_results[n_acked + 1])
    /\ n_acked' = n_acked + 1
    /\ UNCHANGED <<pc, days, ioVars, ssim, rebufVars, plotVars, exit_msg>>

\* The second loop of collect_ssim, run when the points are exhausted:
\* ssim[abr_cc] = ssim_index_to_db(np.mean(x[abr_cc])) for every key of x.
CollectSsimAverage ==
    /\ pc = "collect_ssim"
    /\ n_acked = Len(video_acked_results)
    /\ ssim' = [abr_cc \in DOMAIN ssim_x |->
                    ssim_index_to_db(Mean(ssim_x[abr_cc]))]
    /\ pc' = "collect_rebuffer"
    /\ UNCHANGED <<days, ioVars, expt_id_cache, ssim_x, ssim_x_keys, n_acked,
                   rebufVars, plotVars, exit_msg>>

\* ------------------------------------------------------- collect_rebuffer
SessionOf(pt) == <<pt.user, pt.init_id, pt.channel, pt.expt_id>>

\* The abr_cc key under which a session of x is filed: the configuration of
\* its expt_id, which the cache holds once a point of the session was seen.
KeyOf(session) ==
    LET expt_config == retrieve_expt_config(session[4], expt_id_cache)
    IN  <<expt_config.abr, expt_config.cc>>

NewSession == [min_play_time |-> None, max_play_time |-> None,
               min_cum_rebuf |-> None, max_cum_rebuf |-> None]

\* The three updates of y for one point.  (Variant of the first: the first
\* startup wins, later ones are ignored.)
UpdateStartupFirst(y, pt) ==
    IF pt.event = "startup" /\ y.min_play_time = None
      THEN [y EXCEPT !.min_play_time = pt.time, !.min_cum_rebuf = pt.cum_rebuf]
      ELSE y
UpdateStartup(y, pt) ==
    IF pt.event = "startup"
      THEN [y EXCEPT !.min_play_time = pt.time, !.min_cum_rebuf = pt.cum_rebuf]
      ELSE y

UpdateMaxPlayTime(y, ts) ==
    IF y.max_play_time = None \/ ts > y.max_play_time
      THEN [y EXCEPT !.max_play_time = ts]
      ELSE y

UpdateMaxCumRebuf(y, cum_rebuf) ==
    IF y.max_cum_rebuf = None \/ cum_rebuf > y.max_cum_rebuf
      THEN [y EXCEPT !.max_cum_rebuf = cum_rebuf]
      ELSE y

\* All three in the order of the code.  (Variant: the maxima are updated in
\* an else branch, for points other than a startup only.)
UpdateSessionElse(y, pt) ==
    IF pt.event = "startup" THEN UpdateStartup(y, pt)
    ELSE UpdateMaxCumRebuf(UpdateMaxPlayTime(y, pt.time), pt.cum_rebuf)
UpdateSession(y, pt) ==
    UpdateMaxCumRebuf(UpdateMaxPlayTime(UpdateStartup(y, pt), pt.time),
                      pt.cum_rebuf)

\* One iteration of "for pt in client_buffer_results['client_buffer']".
RebufferPoint(pt) ==
    LET expt_config == retrieve_expt_config(pt.expt_id, expt_id_cache)
        abr_cc == <<expt_config.abr, expt_config.cc>>
        session == SessionOf(pt)
        y == IF session \in DOMAIN x THEN x[session] ELSE NewSession
    IN  /\ expt_id_cache' = CacheAfter(pt.expt_id, expt_id_cache)
        /\ x_keys' = IF InSeq(abr_cc, x_keys) THEN x_keys
                     ELSE Append(x_keys, abr_cc)
        /\ x_sessions' = IF session \in DOMAIN x THEN x_sessions
                         ELSE Append(x_sessions, session)
        /\ x' = (session :> UpdateSession(y, pt)) @@ x

CollectRebufferPoint ==
    /\ pc = "collect_rebuffer"
    /\ n_buffer < Len(client_buffer_results)
    /\ RebufferPoint(client_buffer_results[n_buffer + 1])
    /\ n_buffer' = n_buffer + 1
    /\ UNCHANGED <<pc, days, ioVars, ssimVars, red_i, abr_cc_play, rebuf_rate,
                   rebuffer, total_play, plotVars, exit_msg>>

\* The sessions of x[abr_cc], in insertion order.
SessionsOf(abr_cc) ==
    LET Under(session) == KeyOf(session) = abr_cc
    IN  SelectSeq(x_sessions, Under)

\* "if y['min_play_time'] is None or y['min_cum_rebuf'] is None: continue"
\* (Variant: the test reads the max fields.)
IncompleteMax(y) == y.max_play_time = None \/ y.max_cum_rebuf = None
Incomplete(y) == y.min_play_time = None \/ y.min_cum_rebuf = None

sess_play(y) == y.max_play_time - y.min_play_time
sess_rebuf(y) == y.max_cum_rebuf - y.min_cum_rebuf

\* "if sess_play < 2: continue"  (Variant: "<= 2".)
TooShortInclusive(y) == sess_play(y) <= 2
TooShort(y) == sess_play(y) < 2

\* The inner loop "for session in x[abr_cc]": the entries appended to
\* rebuf_rate, each the ratio sess_rebuf / sess_play of a session, kept as
\* its two terms beside the session it stems from.
RECURSIVE SessionRates(_)
SessionRates(sessions) ==
    IF sessions = <<>> THEN <<>>
    ELSE LET session == Head(sessions)
             y == x[session]
         IN  IF Incomplete(y) \/ TooShort(y)
               THEN SessionRates(Tail(sessions))
               ELSE <<[session |-> session, play |-> sess_play(y),
                       rebuf |-> sess_rebuf(y)]>>
                    \o SessionRates(Tail(sessions))

RECURSIVE PlaySum(_)
PlaySum(rates) ==
    IF rates = <<>> THEN 0 ELSE Head(rates).play + PlaySum(Tail(rates))

\* np.percentile(rebuf_rate, 95) * 100 with linear interpolation, exactly:
\* every ratio is scaled by RateScale, a common multiple of all durations.
RECURSIVE Gcd(_, _)
Gcd(a, b) == IF b = 0 THEN a ELSE Gcd(b, a % b)
RECURSIVE LcmUpTo(_)
LcmUpTo(n) == IF n <= 1 THEN 1
              ELSE LET l == LcmUpTo(n - 1) IN (l * n) \div Gcd(l, n)
RateScale == LcmUpTo(SetMax(Times))

Scaled(rate) == rate.rebuf * (RateScale \div rate.play)

RECURSIVE Insert(_, _)
Insert(v, sorted) ==
    IF sorted = <<>> THEN <<v>>
    ELSE IF v <= Head(sorted) THEN <<v>> \o sorted
    ELSE <<Head(sorted)>> \o Insert(v, Tail(sorted))
RECURSIVE Sorted(_)
Sorted(vals) == IF vals = <<>> THEN <<>>
                ELSE Insert(Head(vals), Sorted(Tail(vals)))

Percentile95Pct(rates) ==
    IF rates = <<>> THEN [num |-> 0, den |-> 0]     \* nan
    ELSE
    LET a == Sorted([i \in 1..Len(rates) |-> Scaled(rates[i])])
        pos == 95 * (Len(a) - 1)
        lo == (pos \div 100) + 1
        frac == pos % 100
        hi == IF lo < Len(a) THEN lo + 1 ELSE lo
    IN  [num |-> 100 * a[lo] + frac * (a[hi] - a[lo]), den |-> RateScale]

\* "if abr_cc_play == 0"  (Variant: "< 0".)
ZeroPlayNegative(play) == play < 0
ZeroPlay(play) == play = 0

\* One iteration of "for abr_cc in x": reduce the sessions of the next key,
\* exit if its play time is 0, else record its percentile and play time.
ReduceConfig ==
    /\ pc \in {"collect_rebuffer", "reduce"}
    /\ n_buffer = Len(client_buffer_results)
    /\ red_i < Len(x_keys)
    /\ LET abr_cc == x_keys[red_i + 1]
           rates == SessionRates(SessionsOf(abr_cc))
           play == PlaySum(rates)
       IN  /\ abr_cc_play' = play
           /\ rebuf_rate' = rates
           /\ red_i' = red_i + 1
           /\ IF ZeroPlay(play)
                THEN /\ pc' = "exit"
                     /\ exit_msg' = [kind |-> "zero_play", key |-> abr_cc]
                     /\ UNCHANGED <<rebuffer, total_play>>
                ELSE /\ pc' = "reduce"
                     /\ rebuffer' = (abr_cc :> Percentile95Pct(rates)) @@ rebuffer
                     /\ total_play' = (abr_cc :> play) @@ total_play
                     /\ UNCHANGED exit_msg
    /\ UNCHANGED <<days, ioVars, expt_id_cache, ssimVars, x, x_keys, x_sessions,
                   n_buffer, plotVars>>

\* "not ssim or not rebuffer"  (Variants: "and" for "or"; a test that also
\* rejects aggregates with different key sets.)
NoDataBoth(s, r) == DOMAIN s = {} /\ DOMAIN r = {}
NoDataMismatch(s, r) == DOMAIN s = {} \/ DOMAIN r = {} \/ DOMAIN s # DOMAIN r
NoData(s, r) == DOMAIN s = {} \/ DOMAIN r = {}

\* collect_rebuffer returns; "if not ssim or not rebuffer: sys.exit(...)"
CheckData ==
    /\ pc \in {"collect_rebuffer", "reduce"}
    /\ n_buffer = Len(client_buffer_results)
    /\ red_i = Len(x_keys)
    /\ IF NoData(ssim, rebuffer)
         THEN /\ pc' = "exit"
              /\ exit_msg' = [kind |-> "no_data", key |-> NoKey]
         ELSE /\ pc' = "plot"
              /\ UNCHANGED exit_msg
    /\ UNCHANGED <<days, ioVars, expt_id_cache, ssimVars, rebufVars, plotVars>>

\* ----------------------------------------------------- plot_ssim_rebuffer
\* The text of the annotation: '{}+{}'.format(*abr_cc) and the play time.
Label(abr_cc, play) == [abr_cc_str |-> <<abr_cc[1], "+", abr_cc[2]>>,
                        seconds |-> play]

\* One iteration of "for abr_cc in ssim": exit if the key has no rebuffer
\* statistic, else place and annotate its point.
PlotPoint ==
    /\ pc = "plot"
    /\ plot_i < Len(ssim_x_keys)
    /\ LET abr_cc == ssim_x_keys[plot_i + 1]
       IN  IF abr_cc \notin DOMAIN rebuffer
             THEN /\ pc' = "exit"
                  /\ exit_msg' = [kind |-> "join", key |-> abr_cc]
                  /\ UNCHANGED <<plot_i, scatter>>
             ELSE /\ scatter' = Append(scatter,
                                  [x |-> rebuffer[abr_cc], y |-> ssim[abr_cc],
                                   label |-> Label(abr_cc, total_play[abr_cc])])
                  /\ plot_i' = plot_i + 1
                  /\ UNCHANGED <<pc, exit_msg>>
    /\ UNCHANGED <<days, ioVars, expt_id_cache, ssimVars, rebufVars,
                   output_written>>

\* After the loop: the axis limits are set and fig.savefig writes the file.
\* (Variant: the file is written without waiting for the loop to end.)
SaveFigEarly ==
    /\ pc = "plot"
    /\ output_written' = TRUE
    /\ pc' = "close"
    /\ UNCHANGED <<days, ioVars, expt_id_cache, ssimVars, rebufVars, plot_i,
                   scatter, exit_msg>>
SaveFig ==
    /\ pc = "plot"
    /\ plot_i = Len(ssim_x_keys)
    /\ output_written' = TRUE
    /\ pc' = "close"
    /\ UNCHANGED <<days, ioVars, expt_id_cache, ssimVars, rebufVars, plot_i,
                   scatter, exit_msg>>

\* postgres_cursor.close(), the last statement of main()
CloseCursor ==
    /\ pc = "close"
    /\ postgres_cursor' = "closed"
    /\ pc' = "done"
    /\ UNCHANGED <<days, yaml_settings, influx_client, video_acked_results,
                   client_buffer_results, expt_id_cache, ssimVars, rebufVars,
                   plotVars, exit_msg>>

Next == CheckDays \/ OpenSettings \/ ConnectInflux \/ QueryVideoAcked
        \/ QueryClientBuffer \/ ConnectPostgres
        \/ CollectSsimPoint \/ CollectSsimAverage
        \/ CollectRebufferPoint \/ ReduceConfig \/ CheckData
        \/ PlotPoint \/ SaveFig \/ CloseCursor

Spec == Init /\ [][Next]_vars

\* ------------------------------------------------------------ the history
\* What the properties below are stated over: the client_buffer points
\* consumed so far, independently of the dicts collect_rebuffer builds.
Consumed == SubSeq(client_buffer_results, 1, n_buffer)

PointsOf(session) ==
    LET Mine(pt) == SessionOf(pt) = session IN SelectSeq(Consumed, Mine)

StartupsOf(session) ==
    LET IsStartup(pt) == pt.event = "startup"
    IN  SelectSeq(PointsOf(session), IsStartup)

HasStartup(session) == StartupsOf(session) # <<>>
LastStartup(session) == StartupsOf(session)[Len(StartupsOf(session))]

SessionsSeen == {SessionOf(Consumed[i]) : i \in 1..Len(Consumed)}
TimesOf(session) ==
    {PointsOf(session)[i].time : i \in 1..Len(PointsOf(session))}
CumRebufsOf(session) ==
    {PointsOf(session)[i].cum_rebuf : i \in 1..Len(PointsOf(session))}

\* The abr_cc key of a session, from the experiment table alone.
ConfigKey(session) ==
    <<ExptConfigRow(session[4]).abr, ExptConfigRow(session[4]).cc>>

Duration(session) == SetMax(TimesOf(session)) - LastStartup(session).time
Stall(session) == SetMax(CumRebufsOf(session)) - LastStartup(session).cum_rebuf

\* A session the reduction is to retain: started, and at least 2 seconds long.
Usable(session) == HasStartup(session) /\ Duration(session) >= 2

\* The entries of rebuf_rate that stem from a session.
EntriesOf(session) ==
    {i \in 1..Len(rebuf_rate) : rebuf_rate[i].session = session}

\* The inner loop has run for some key; ReducedKey is the latest such key.
Reduced == red_i >= 1
ReducedKey == x_keys[red_i]

\* C9: after any prefix of the points, each session's min_play_time and
\* min_cum_rebuf are those of the startup point consumed last (None if there
\* is none), max_play_time is the largest timestamp and max_cum_rebuf the
\* largest cumulative stall over all its points of every type.
C9_SessionStats ==
    /\ DOMAIN x = SessionsSeen
    /\ \A session \in DOMAIN x :
        /\ x[session].min_play_time =
             IF HasStartup(session) THEN LastStartup(session).time ELSE None
        /\ x[session].min_cum_rebuf =
             IF HasStartup(session) THEN LastStartup(session).cum_rebuf
             ELSE None
        /\ x[session].max_play_time = SetMax(TimesOf(session))
        /\ x[session].max_cum_rebuf = SetMax(CumRebufsOf(session))

\* Two startups of one session, the earlier-consumed one with the later
\* timestamp and the smaller stall: the two maxima stem from different points.
C9_Witness ==
    \E session \in DOMAIN x :
        /\ Len(StartupsOf(session)) = 2
        /\ StartupsOf(session)[1].time > StartupsOf(session)[2].time
        /\ StartupsOf(session)[1].cum_rebuf < StartupsOf(session)[2].cum_rebuf
        /\ x[session].min_play_time = StartupsOf(session)[2].time
        /\ x[session].max_play_time = StartupsOf(session)[1].time

\* C10: every session with a startup has max_play_time >= min_play_time and
\* max_cum_rebuf >= min_cum_rebuf, whatever the order of its points; every
\* entry of rebuf_rate is a ratio >= 0 over a duration >= 2.
C10_NonNegative ==
    /\ \A session \in SessionsSeen :
         HasStartup(session) =>
            /\ x[session].max_play_time >= x[session].min_play_time
            /\ x[session].max_cum_rebuf >= x[session].min_cum_rebuf
    /\ \A i \in 1..Len(rebuf_rate) :
         rebuf_rate[i].rebuf >= 0 /\ rebuf_rate[i].play >= 2
    /\ Reduced => abr_cc_play >= 2 * Len(rebuf_rate)

\* A retained session whose startup was consumed after a point with a later
\* timestamp.
C10_Witness ==
    /\ Reduced
    /\ \E i \in 1..Len(rebuf_rate) :
         LET session == rebuf_rate[i].session
         IN  /\ PointsOf(session)[1].event # "startup"
             /\ PointsOf(session)[1].time > LastStartup(session).time

\* C1: a session for which no startup point was seen leaves no entry in
\* rebuf_rate and adds nothing to abr_cc_play: the entries and the play time
\* of a reduced key stem from its sessions with a startup alone.
C1_NoStartupNotCounted ==
    Reduced =>
        /\ \A i \in 1..Len(rebuf_rate) : HasStartup(rebuf_rate[i].session)
        /\ \A session \in SessionsSeen :
             ~HasStartup(session) => EntriesOf(session) = {}
        /\ abr_cc_play = PlaySum(rebuf_rate)

\* A reduced key with a retained session and a session without startup.
C1_Witness ==
    /\ Reduced
    /\ rebuf_rate # <<>>
    /\ \E session \in SessionsSeen :
         ConfigKey(session) = ReducedKey /\ ~HasStartup(session)

\* C2: of the sessions of a reduced key that have a startup, one shorter than
\* 2 seconds leaves no entry and adds no play time, and one of 2 seconds or
\* more leaves exactly one entry, its stall over its duration, and adds its
\* duration to the play time.
C2_ShortExcluded ==
    Reduced =>
        /\ \A session \in SessionsSeen :
             (ConfigKey(session) = ReducedKey /\ HasStartup(session)) =>
                IF Duration(session) < 2
                  THEN EntriesOf(session) = {}
                  ELSE /\ Cardinality(EntriesOf(session)) = 1
                       /\ \A i \in EntriesOf(session) :
                            /\ rebuf_rate[i].play = Duration(session)
                            /\ rebuf_rate[i].rebuf = Stall(session)
        /\ abr_cc_play =
             SeqSum([i \in 1..Len(rebuf_rate) |->
                        Duration(rebuf_rate[i].session)])

\* A reduced key with a session of exactly 2 seconds, retained, and a started
\* session of less than 2 seconds, left out.
C2_Witness ==
    /\ Reduced
    /\ \E s1, s2 \in SessionsSeen :
         /\ ConfigKey(s1) = ReducedKey /\ ConfigKey(s2) = ReducedKey
         /\ HasStartup(s1) /\ Duration(s1) = 2 /\ EntriesOf(s1) # {}
         /\ HasStartup(s2) /\ Duration(s2) < 2 /\ EntriesOf(s2) = {}
         /\ abr_cc_play = 2
\* --------------------------------------------- properties of the whole run
\* The first element of a sequence of keys that lies in the set S.
FirstIn(keys, S) ==
    keys[CHOOSE i \in 1..Len(keys) :
            keys[i] \in S /\ \A j \in 1..(i - 1) : keys[j] \notin S]

\* The abr_cc key of each point, in the order of the query results.
BufferKeys == [i \in 1..Len(Consumed) |-> ConfigKey(SessionOf(Consumed[i]))]
QualityKey(pt) == <<ExptConfigRow(pt.expt_id).abr, ExptConfigRow(pt.expt_id).cc>>
QualityKeys ==
    [i \in 1..n_acked |-> QualityKey(video_acked_results[i])]

KeysSeen == {BufferKeys[i] : i \in 1..Len(BufferKeys)}

\* A key none of whose sessions is usable: its total play time is 0.
NoRetained(abr_cc) ==
    \A session \in SessionsSeen : ConfigKey(session) = abr_cc => ~Usable(session)
ZeroPlayKeys == {abr_cc \in KeysSeen : NoRetained(abr_cc)}

ExitedWith(kind) == pc = "exit" /\ exit_msg.kind = kind

\* collect_rebuffer has returned to main().
RebufferReturned ==
    \/ pc \in {"plot", "close", "done"}
    \/ ExitedWith("no_data") \/ ExitedWith("join")

\* collect_rebuffer is over, by return or by its own sys.exit.
RebufferEnded == RebufferReturned \/ ExitedWith("zero_play")

\* C3, as stated: once collect_rebuffer is over, every key that has buffer
\* points and no retained session is the key the fatal error names.
C3_Original ==
    RebufferEnded =>
        \A abr_cc \in ZeroPlayKeys :
            pc = "exit" /\ exit_msg = [kind |-> "zero_play", key |-> abr_cc]

\* C3, amended: if some key that has buffer points has no retained session,
\* collect_rebuffer never returns: it ends in the fatal error, which names the
\* first such key in the order the keys first appear in the points; and no
\* such key is ever given a rebuffer statistic or a total play time.
C3_ZeroPlayFatal ==
    /\ (RebufferEnded /\ ZeroPlayKeys # {}) =>
            /\ ~RebufferReturned
            /\ exit_msg = [kind |-> "zero_play",
                           key |-> FirstIn(BufferKeys, ZeroPlayKeys)]
    /\ \A abr_cc \in ZeroPlayKeys :
            abr_cc \notin DOMAIN rebuffer /\ abr_cc \notin DOMAIN total_play

\* The fatal error, after another key with usable sessions was reduced, with
\* two keys that have no retained session.
C3_Witness ==
    /\ ExitedWith("zero_play")
    /\ DOMAIN rebuffer # {}
    /\ Cardinality(ZeroPlayKeys) = 2

\* collect_ssim has returned.
SsimReturned ==
    \/ pc \in {"collect_rebuffer", "reduce", "plot", "close", "done"}
    \/ (pc = "exit" /\ exit_msg.kind # "days")

\* The keys with at least one point that has a usable quality index.
UsableKeys ==
    {QualityKeys[i] : i \in {j \in 1..n_acked :
                                video_acked_results[j].ssim_index # None}}

\* The keys of ssim with no entry in rebuffer, once both are computed.
MissingKeys == DOMAIN ssim \ DOMAIN rebuffer

PlotStarted == pc \in {"plot", "close", "done"} \/ ExitedWith("join")
PlotEnded == pc \in {"close", "done"} \/ ExitedWith("join")

\* C4, as stated: once plot_ssim_rebuffer is over, every key of ssim that has
\* no entry in rebuffer is the key the error names, and no file was written
\* (taken over the runs in which every key of ssim has a usable point).
C4_Original ==
    (PlotEnded /\ DOMAIN ssim = UsableKeys) =>
        \A abr_cc \in MissingKeys :
            /\ pc = "exit" /\ exit_msg = [kind |-> "join", key |-> abr_cc]
            /\ ~output_written

\* C4, amended: if ssim has a key with no entry in rebuffer, the plot never
\* gets to write the file, and it ends in the error naming the first such key
\* in the order of ssim's keys, wherever in that order the key stands.
C4_JoinComplete ==
    (PlotStarted /\ MissingKeys # {}) =>
        /\ ~output_written
        /\ pc \notin {"close", "done"}
        /\ PlotEnded =>
             exit_msg = [kind |-> "join",
                         key |-> FirstIn(QualityKeys, MissingKeys)]

\* The join error for the second key of ssim, after the first was plotted.
C4_Witness ==
    /\ ExitedWith("join")
    /\ Len(scatter) = 1
    /\ exit_msg.key = ssim_x_keys[2]
    /\ ~output_written

\* C5, as stated, in the form a finite run refutes: a run that gets to write
\* the plot has no key present in one aggregate and absent from the other
\* (taken over the runs in which every key of ssim has a usable point).
C5_Original ==
    (output_written /\ DOMAIN ssim = UsableKeys) =>
        DOMAIN ssim = DOMAIN rebuffer

\* C5, amended: the join fails in one direction only.  With both aggregates
\* non-empty, a key of ssim absent from rebuffer ends the run in the join
\* error naming the first such key, with no file written; a key of rebuffer
\* absent from ssim fails nothing: if no key of ssim is missing the run
\* plots exactly ssim's keys and writes the file.  An empty aggregate ends
\* the run in the no-data error.
C5_JoinOneDirection ==
    /\ (RebufferReturned /\ (DOMAIN ssim = {} \/ DOMAIN rebuffer = {})) =>
            ExitedWith("no_data")
    /\ (RebufferReturned /\ pc = "exit"
            /\ DOMAIN ssim # {} /\ DOMAIN rebuffer # {}) =>
            /\ MissingKeys # {}
            /\ exit_msg = [kind |-> "join",
                           key |-> FirstIn(QualityKeys, MissingKeys)]
            /\ ~output_written
    /\ pc = "done" =>
            /\ MissingKeys = {}
            /\ output_written
            /\ {scatter[i].label.abr_cc_str : i \in 1..Len(scatter)}
                 = {<<k[1], "+", k[2]>> : k \in DOMAIN ssim}

\* A finished run that wrote the plot although rebuffer holds a key that
\* ssim lacks.
C5_Witness ==
    /\ pc = "done"
    /\ output_written
    /\ DOMAIN rebuffer \ DOMAIN ssim # {}

\* C6: the keys of the mapping collect_ssim returns are exactly the keys with
\* at least one point that has a usable quality index.
C6_NoEmptyKeys ==
    SsimReturned => DOMAIN ssim = UsableKeys

\* C7: an error exit leaves the output file unwritten, and the file is
\* written only when every check has passed: a valid window size, both
\* aggregates non-empty, no key with zero play time, no key of ssim missing
\* from rebuffer.  (No exit follows the write: pc = "exit" excludes it.)
C7_AllOrNothing ==
    /\ pc = "exit" => ~output_written
    /\ output_written =>
            /\ pc \in {"close", "done"}
            /\ days >= 1
            /\ n_acked = Len(video_acked_results)
            /\ n_buffer = Len(client_buffer_results)
            /\ DOMAIN ssim # {} /\ DOMAIN rebuffer # {}
            /\ ZeroPlayKeys = {}
            /\ MissingKeys = {}

\* A finished run that wrote the plot of two configurations.
C7_Witness ==
    /\ pc = "done"
    /\ output_written
    /\ Len(scatter) = 2

\* C8: with a window size below 1 the run does nothing but exit: the
\* settings file is never opened, no store is connected to or queried.
C8_DaysFirst ==
    days < 1 =>
        /\ pc \in {"check_days", "exit"}
        /\ pc = "exit" => exit_msg = [kind |-> "days", key |-> NoKey]
        /\ ~yaml_settings
        /\ ~influx_client
        /\ video_acked_results = NotQueried
        /\ client_buffer_results = NotQueried
        /\ postgres_cursor = "none"

\* The exit for a window size of 0.
C8_Witness ==
    /\ days = 0
    /\ ExitedWith("days")
====
